---- MODULE Spec2Model ----
(***************************************************************************)
(* Model of opytimizer's SA (science/sa.py) and CEM (misc/cem.py)          *)
(* optimizers: the validated parameter setters and the run() pipeline      *)
(* (initial evaluation, then per iteration: update, clip, evaluate, dump). *)
(*                                                                         *)
(* Numbers.  A Python number is a record [kind, num, den] standing for the *)
(* value num/den of type kind.  Positions, fitness, mean and std are       *)
(* fixed-point numbers: an integer counts quanta of the arithmetic, and    *)
(* np.mean / np.sqrt / the alpha products round to the quantum (floor).    *)
(***************************************************************************)
EXTENDS Integers, Sequences, FiniteSets, TLC

\* ------------------------------------------------------------------ bounds
\* Population size of the Space handed to run().
PopSize == 2
\* Largest iteration budget (space.n_iterations) explored.
MaxIter == 2

\* ------------------------------------------------------- program constants
FLOAT_MAX == 1000000

\* ------------------------------------------------------------- the search space
\* Decision variables and the dimensions of each (agent.position is a
\* n_variables x n_dimensions array).
Vars == {1, 2}
Dims == {1}
\* space.lb / space.ub, one value per decision variable.
lb == <<0, -1>>
ub == <<2, -1>>

Agents == 1..PopSize

\* ------------------------------------------------------------- numbers
Int_(n) == [kind |-> "int", num |-> n, den |-> 1]
Float_(n, d) == [kind |-> "float", num |-> n, den |-> d]
Bool_(b) == [kind |-> "bool", num |-> IF b THEN 1 ELSE 0, den |-> 1]
Str_ == [kind |-> "str", num |-> 0, den |-> 1]
None_ == [kind |-> "NoneType", num |-> 0, den |-> 1]
\* The attribute does not exist on this optimizer (SA has no alpha, CEM no T).
Absent == [kind |-> "absent", num |-> 0, den |-> 1]

\* isinstance(v, int): bool is a subclass of int.
IsInt(v) == v.kind \in {"int", "bool"}
\* isinstance(v, (float, int))
IsFloatOrInt(v) == v.kind \in {"float", "int", "bool"}

Min(a, b) == IF a < b THEN a ELSE b
Max(a, b) == IF a > b THEN a ELSE b

RECURSIVE Gcd(_, _)
Gcd(a, b) == IF b = 0 THEN a ELSE Gcd(b, a % b)

\* a * b on Python numbers (int * int is an int, anything else a float).  The
\* value is kept in lowest terms; common factors are cancelled before the
\* products are formed.
Mul(a, b) ==
    LET g1 == Gcd(a.num, b.den)
        g2 == Gcd(b.num, a.den)
        n1 == IF g1 = 0 THEN 0 ELSE a.num \div g1
        d2 == IF g1 = 0 THEN 1 ELSE b.den \div g1
        n2 == IF g2 = 0 THEN 0 ELSE b.num \div g2
        d1 == IF g2 = 0 THEN 1 ELSE a.den \div g2
    IN  [kind |-> IF IsInt(a) /\ IsInt(b) THEN "int" ELSE "float",
         num |-> n1 * n2,
         den |-> d1 * d2]

\* The sum of f[x] over the x of S.
RECURSIVE SumOver(_, _)
SumOver(f, S) ==
    IF S = {} THEN 0
    ELSE LET x == CHOOSE y \in S : TRUE IN f[x] + SumOver(f, S \ {x})

\* np.sqrt on a fixed-point number: the largest r with r*r <= n, found by
\* bisection of lo..hi.
RECURSIVE SqrtIn(_, _, _)
SqrtIn(n, lo, hi) ==
    IF lo = hi THEN lo
    ELSE LET mid == (lo + hi + 1) \div 2
         IN  IF mid * mid <= n THEN SqrtIn(n, mid, hi) ELSE SqrtIn(n, lo, mid - 1)

Sqrt(n) == SqrtIn(n, 0, Min(n, 46340))

\* np.mean of a 2-D array arr[i][d] (i over a sequence, d over Dims): the sum
\* of all its elements over their number.
NpMean(arr) ==
    SumOver([i \in DOMAIN arr |-> SumOver(arr[i], Dims)], DOMAIN arr)
        \div (Len(arr) * Cardinality(Dims))

\* ------------------------------------------------------------- state
VARIABLES
    algo,            \* which optimizer object this is: "SA" or "CEM"
    T,               \* SA._T
    beta,            \* SA._beta
    n_updates,       \* CEM._n_updates
    alpha,           \* CEM._alpha
    call,            \* the last setter call: name, value offered, value held before, error raised
    pc,              \* position of run(): build, stats, init_eval, update, clip, evaluate, dump, done, raised
    function,        \* the objective function handed to run()
    n_iterations,    \* space.n_iterations
    store_best_only, \* the flag History is built with
    agents,          \* space.agents: sequence of [id, position, fit]
    best_agent,      \* space.best_agent: [position, fit]
    mean,            \* CEM.run's mean array
    std,             \* CEM.run's std array
    history,         \* the History being filled: sequence of records
    t,               \* the loop variable of run(): iterations completed
    idx,             \* position of the `for agent in agents` loop inside _update
    loc,             \* locals of the last SA loop body: agent index, candidate a, agent before, r1 outcome
    lastEval,        \* the positions handed to the objective function by the last step
    update_position, \* CEM._update's update_position array (the elites' positions)
    T0,              \* SA.T when run() was entered
    n_calls          \* completed calls of SA._update in this run

vars == <<algo, T, beta, n_updates, alpha, call, pc, function, n_iterations,
          store_best_only, agents, best_agent, mean, std, history, t, idx, loc,
          lastEval, update_position, T0, n_calls>>

paramVars == <<T, beta, n_updates, alpha>>
spaceVars == <<function, n_iterations, store_best_only>>
runVars == <<agents, best_agent, mean, std, history, t, idx, loc, lastEval,
             update_position, T0, n_calls>>

\* ------------------------------------------------------------- setters
\* What a setter does with the value it is handed: "ok" (stored) or the
\* exception it raises.
CheckT(v) ==
    IF ~IsFloatOrInt(v) THEN "TypeError"
    ELSE IF v.num < 0 THEN "ValueError"
    ELSE "ok"

CheckBeta(v) ==
    IF ~IsFloatOrInt(v) THEN "TypeError"
    ELSE IF v.num < 0 THEN "ValueError"
    ELSE "ok"

\* Variant of CheckNUpdates that omits the isinstance test.
CheckNUpdatesNoType(v) ==
    IF v.num <= 0 THEN "ValueError" ELSE "ok"

CheckNUpdates(v) ==
    IF ~IsInt(v) THEN "TypeError"
    ELSE IF v.num <= 0 THEN "ValueError"
    ELSE "ok"

CheckAlpha(v) ==
    IF ~IsFloatOrInt(v) THEN "TypeError"
    ELSE IF v.num < 0 THEN "ValueError"
    ELSE "ok"

\* The values the setters are tried with.
TTry == {Int_(0), Int_(-1), Float_(-1, 2), Str_}
BetaTry == {Int_(0), Float_(3, 2), Int_(-1), None_}
NUpdatesTry == {Int_(1), Int_(PopSize), Int_(0), Int_(-2), Float_(5, 2), Bool_(FALSE), Str_}
AlphaTry == {Int_(0), Int_(3), Float_(-1, 2), Str_}

NoCall == [name |-> "none", value |-> Absent, prev |-> Absent, raised |-> "ok"]

SetT ==
    /\ pc = "build" /\ algo = "SA"
    /\ \E v \in TTry :
         /\ T' = IF CheckT(v) = "ok" THEN v ELSE T
         /\ call' = [name |-> "T", value |-> v, prev |-> T, raised |-> CheckT(v)]
    /\ UNCHANGED <<algo, beta, n_updates, alpha, pc, spaceVars, runVars>>

SetBeta ==
    /\ pc = "build" /\ algo = "SA"
    /\ \E v \in BetaTry :
         /\ beta' = IF CheckBeta(v) = "ok" THEN v ELSE beta
         /\ call' = [name |-> "beta", value |-> v, prev |-> beta, raised |-> CheckBeta(v)]
    /\ UNCHANGED <<algo, T, n_updates, alpha, pc, spaceVars, runVars>>

SetNUpdates ==
    /\ pc = "build" /\ algo = "CEM"
    /\ \E v \in NUpdatesTry :
         /\ n_updates' = IF CheckNUpdates(v) = "ok" THEN v ELSE n_updates
         /\ call' = [name |-> "n_updates", value |-> v, prev |-> n_updates,
                     raised |-> CheckNUpdates(v)]
    /\ UNCHANGED <<algo, T, beta, alpha, pc, spaceVars, runVars>>

SetAlpha ==
    /\ pc = "build" /\ algo = "CEM"
    /\ \E v \in AlphaTry :
         /\ alpha' = IF CheckAlpha(v) = "ok" THEN v ELSE alpha
         /\ call' = [name |-> "alpha", value |-> v, prev |-> alpha, raised |-> CheckAlpha(v)]
    /\ UNCHANGED <<algo, T, beta, n_updates, pc, spaceVars, runVars>>

\* ------------------------------------------------------------- collaborators
\* The objective functions run() is tried with: position -> fitness.
Functions == {"sphere", "negsum"}

Function(f, position) ==
    LET sq == [j \in Vars |-> SumOver([d \in Dims |-> position[j][d] * position[j][d]], Dims)]
        li == [j \in Vars |-> SumOver(position[j], Dims)]
    IN  IF f = "sphere" THEN SumOver(sq, Vars) ELSE 0 - SumOver(li, Vars)

\* Agent.clip_by_bound: every element clamped into its variable's bounds.
ClipByBound(position) ==
    [j \in Vars |-> [d \in Dims |-> Max(lb[j], Min(position[j][d], ub[j]))]]

InBounds(position) ==
    \A j \in Vars : \A d \in Dims : lb[j] <= position[j][d] /\ position[j][d] <= ub[j]

\* Space.clip_by_bound: every agent clipped.
SpaceClip(ags) ==
    [i \in DOMAIN ags |-> [ags[i] EXCEPT !.position = ClipByBound(@)]]

\* Optimizer._evaluate without a hook: every agent's fitness is recomputed,
\* and best_agent becomes a copy of the first agent of lowest fitness when
\* that fitness is lower than the one best_agent holds.
EvaluatedAgents(ags, f) ==
    [i \in DOMAIN ags |-> [ags[i] EXCEPT !.fit = Function(f, ags[i].position)]]

EvaluatedBest(ags, best, f) ==
    LET ev == EvaluatedAgents(ags, f)
        m == CHOOSE i \in DOMAIN ev :
                 \A k \in DOMAIN ev : ev[i].fit < ev[k].fit \/ (ev[i].fit = ev[k].fit /\ i <= k)
    IN  IF ev[m].fit < best.fit
        THEN [position |-> ev[m].position, fit |-> ev[m].fit]
        ELSE best

\* History.dump: one record appended per call.  A record holds the best agent
\* and, unless store_best_only, the population (kept here as its size).
\* Variant of DumpRecord that records the first agent as the best one.
DumpRecordFirstAgent(ags, best, only) ==
    [best_agent |-> [position |-> ags[1].position, fit |-> ags[1].fit],
     n_agents |-> IF only THEN 0 ELSE Len(ags)]

DumpRecord(ags, best, only) ==
    [best_agent |-> best, n_agents |-> IF only THEN 0 ELSE Len(ags)]

\* ------------------------------------------------------------- SA._update
\* generate_gaussian_random_number(0, 0.1, size): one draw per element.
NoiseVals == {-1, 0, 1}
Noise == [Vars -> [Dims -> NoiseVals]]

\* Variant of SAMimic that omits a.clip_by_bound().
SAMimicNoClip(agent, noise) ==
    [j \in Vars |-> [d \in Dims |-> agent.position[j][d] + noise[j][d]]]

\* a = deepcopy(agent); a.position += noise; a.clip_by_bound()
SAMimic(agent, noise) ==
    ClipByBound([j \in Vars |-> [d \in Dims |-> agent.position[j][d] + noise[j][d]]])

\* Variant of SAOutcomes that applies the Metropolis test to every candidate.
SAOutcomesMetropolisOnly(afit, fit, TT, r1low) ==
    IF TT.num = 0 THEN {"reject", "raise"}
    ELSE IF afit = fit THEN {"accept"}
    ELSE IF r1low THEN {"accept"} ELSE {"reject"}

\* The acceptance test.  r1low says whether the uniform draw r1 fell below
\* exp(-(a.fit - agent.fit) / T) when that lies strictly between 0 and 1.
\* With T = 0 the quotient is a division by zero: ZeroDivisionError on Python
\* floats, inf or nan (the test is then false) on numpy floats.
SAOutcomes(afit, fit, TT, r1low) ==
    IF afit < fit THEN {"accept"}
    ELSE IF TT.num = 0 THEN {"reject", "raise"}
    ELSE IF afit = fit THEN {"accept"}
    ELSE IF r1low THEN {"accept"} ELSE {"reject"}

\* Variant of DecayTemperature that multiplies by beta twice.
DecayTwice(TT, b) == Mul(Mul(TT, b), b)

\* self.T *= self.beta
DecayTemperature(TT, b) == Mul(TT, b)

NoLoc == [i |-> 0, a |-> << >>, afit |-> 0, old |-> << >>, oldfit |-> 0,
          r1low |-> FALSE, out |-> "none"]

\* One pass of the body of `for agent in agents`.
SAUpdateAgent ==
    /\ pc = "update" /\ algo = "SA" /\ idx <= PopSize
    /\ \E noise \in Noise, r1low \in BOOLEAN :
         LET agent == agents[idx]
             a == SAMimic(agent, noise)
             afit == Function(function, a)
         IN  \E out \in SAOutcomes(afit, agent.fit, T, r1low) :
               /\ agents' = IF out = "accept"
                            THEN [agents EXCEPT ![idx].position = a, ![idx].fit = afit]
                            ELSE agents
               /\ pc' = IF out = "raise" THEN "raised" ELSE "update"
               /\ idx' = idx + 1
               /\ loc' = [i |-> idx, a |-> a, afit |-> afit, old |-> agent.position,
                          oldfit |-> agent.fit, r1low |-> r1low, out |-> out]
               /\ lastEval' = {a}
    /\ UNCHANGED <<algo, paramVars, call, spaceVars, best_agent, mean, std, history, t,
                   update_position, T0, n_calls>>

\* The loop is over: the temperature decays and _update returns.
SADecay ==
    /\ pc = "update" /\ algo = "SA" /\ idx = PopSize + 1
    /\ T' = DecayTemperature(T, beta)
    /\ n_calls' = n_calls + 1
    /\ pc' = "clip"
    /\ loc' = NoLoc
    /\ lastEval' = {}
    /\ UNCHANGED <<algo, beta, n_updates, alpha, call, spaceVars, agents, best_agent, mean,
                   std, history, t, idx, update_position, T0>>

\* ------------------------------------------------------------- CEM._update
\* generate_gaussian_random_number(m, s, n_dimensions): the values one element
\* of the draw can take.  A zero std gives the mean itself; a positive std any
\* value, of which the two bounds and one value beyond each are explored.
Gauss(m, s, j) ==
    IF s = 0 THEN {m} ELSE {lb[j] - 1, lb[j], ub[j], ub[j] + 1}

\* The arrays the inner loop over the decision variables can write into
\* agent.position when no draw fails.
Samples ==
    LET all == UNION {Gauss(mean[j], std[j], j) : j \in Vars}
    IN  {p \in [Vars -> [Dims -> all]] :
            \A j \in Vars : \A d \in Dims : p[j][d] \in Gauss(mean[j], std[j], j)}

\* agents.sort(key=lambda x: x.fit): ascending and stable.
\* Variant of SortAgents that sorts by descending fitness.
SortAgentsDescending(ags) ==
    LET n == Len(ags)
        p == CHOOSE q \in [1..n -> 1..n] :
                 \A i, k \in 1..n : i < k =>
                     /\ q[i] # q[k]
                     /\ \/ ags[q[i]].fit > ags[q[k]].fit
                        \/ ags[q[i]].fit = ags[q[k]].fit /\ q[i] < q[k]
    IN  [i \in 1..n |-> ags[p[i]]]

SortAgents(ags) ==
    LET n == Len(ags)
        p == CHOOSE q \in [1..n -> 1..n] :
                 \A i, k \in 1..n : i < k =>
                     /\ q[i] # q[k]
                     /\ \/ ags[q[i]].fit < ags[q[k]].fit
                        \/ ags[q[i]].fit = ags[q[k]].fit /\ q[i] < q[k]
    IN  [i \in 1..n |-> ags[p[i]]]

\* Variant of Gather that slices agents[:n_updates - 1].
GatherOneLess(ags, n) ==
    [i \in 1..Min(Max(n - 1, 1), Len(ags)) |-> ags[i].position]

\* np.array([agent.position for agent in agents[:n_updates]])
Gather(ags, n) == [i \in 1..Min(n, Len(ags)) |-> ags[i].position]

\* update_position[:, j, :]
Column(up, j) == [i \in DOMAIN up |-> up[i][j]]

\* Variant of UpdateMean with the two weights exchanged.
UpdateMeanSwapped(updates, m, al) ==
    ((al.den - al.num) * m + al.num * NpMean(updates)) \div al.den

\* alpha * mean + (1 - alpha) * np.mean(updates)
UpdateMean(updates, m, al) ==
    (al.num * m + (al.den - al.num) * NpMean(updates)) \div al.den

\* alpha * std + (1 - alpha) * np.sqrt(np.mean((updates - mean) ** 2))
UpdateStd(updates, m, s, al) ==
    LET dev == [i \in DOMAIN updates |->
                   [d \in Dims |-> (updates[i][d] - m) * (updates[i][d] - m)]]
    IN  (al.num * s + (al.den - al.num) * Sqrt(NpMean(dev))) \div al.den

\* The first decision variable whose draw fails (a negative std), or 0.
FailingVar ==
    IF \E j \in Vars : std[j] < 0
    THEN CHOOSE j \in Vars : std[j] < 0 /\ \A k \in Vars : std[k] < 0 => j <= k
    ELSE 0

\* One pass of the body of `for agent in agents` of _create_new_samples: the
\* position is redrawn variable by variable, clipped and evaluated.  A draw
\* with a negative std raises ValueError, after the variables before it were
\* overwritten.
CEMCreateSample ==
    /\ pc = "update" /\ algo = "CEM" /\ idx <= PopSize
    /\ \E p \in Samples :
         IF FailingVar = 0
         THEN /\ agents' = [agents EXCEPT ![idx].position = ClipByBound(p),
                                          ![idx].fit = Function(function, ClipByBound(p))]
              /\ lastEval' = {ClipByBound(p)}
              /\ pc' = "update"
         ELSE /\ agents' = [agents EXCEPT ![idx].position =
                               [j \in Vars |-> IF j < FailingVar THEN p[j] ELSE @[j]]]
              /\ lastEval' = {}
              /\ pc' = "raised"
    /\ idx' = idx + 1
    /\ UNCHANGED <<algo, paramVars, call, spaceVars, best_agent, mean, std, history, t, loc,
                   update_position, T0, n_calls>>

\* The rest of _update: sort, gather the elites, refit mean and std of every
\* decision variable (the std around the mean just written).
CEMRefit ==
    /\ pc = "update" /\ algo = "CEM" /\ idx = PopSize + 1
    /\ LET sorted == SortAgents(agents)
           up == Gather(sorted, n_updates.num)
           new_mean == [j \in Vars |-> UpdateMean(Column(up, j), mean[j], alpha)]
       IN  /\ agents' = sorted
           /\ update_position' = up
           /\ mean' = new_mean
           /\ std' = [j \in Vars |-> UpdateStd(Column(up, j), new_mean[j], std[j], alpha)]
    /\ pc' = "clip"
    /\ lastEval' = {}
    /\ UNCHANGED <<algo, paramVars, call, spaceVars, best_agent, history, t, idx, loc,
                   T0, n_calls>>

\* ------------------------------------------------------------- run()
LoopHead(k) == IF k < n_iterations THEN "update" ELSE "done"

\* The populations Space.initialize may have left: every agent at the lower
\* bounds, every agent at the upper bounds, or the two alternating.
AtLower == [j \in Vars |-> [d \in Dims |-> lb[j]]]
AtUpper == [j \in Vars |-> [d \in Dims |-> ub[j]]]
InitPopulations ==
    {[i \in Agents |-> AtLower], [i \in Agents |-> AtUpper],
     [i \in Agents |-> IF i % 2 = 1 THEN AtLower ELSE AtUpper]}

\* run(space, function, store_best_only) is called.
StartRun ==
    /\ pc = "build"
    /\ \E f \in Functions, n \in 0..MaxIter, only \in BOOLEAN,
          pos \in InitPopulations :
         /\ function' = f
         /\ n_iterations' = n
         /\ store_best_only' = only
         /\ agents' = [i \in Agents |-> [id |-> i, position |-> pos[i], fit |-> FLOAT_MAX]]
    /\ pc' = IF algo = "CEM" THEN "stats" ELSE "init_eval"
    /\ call' = NoCall
    /\ T0' = T
    /\ UNCHANGED <<algo, paramVars, best_agent, mean, std, history, t, idx, loc, lastEval,
                   update_position, n_calls>>

\* CEM.run: the initial mean (a uniform draw within the bounds) and std.
CEMInitStats ==
    /\ pc = "stats"
    /\ \E m \in [Vars -> UNION {lb[j]..ub[j] : j \in Vars}] :
         /\ \A j \in Vars : lb[j] <= m[j] /\ m[j] <= ub[j]
         /\ mean' = m
    /\ std' = [j \in Vars |-> ub[j] - lb[j]]
    /\ pc' = "init_eval"
    /\ UNCHANGED <<algo, paramVars, call, spaceVars, agents, best_agent, history, t, idx, loc,
                   lastEval, update_position, T0, n_calls>>

\* Initial search space evaluation; History is created; the loop is entered.
InitialEvaluate ==
    /\ pc = "init_eval"
    /\ agents' = EvaluatedAgents(agents, function)
    /\ best_agent' = EvaluatedBest(agents, best_agent, function)
    /\ lastEval' = {agents[i].position : i \in DOMAIN agents}
    /\ history' = << >>
    /\ t' = 0
    /\ idx' = 1
    /\ pc' = LoopHead(0)
    /\ UNCHANGED <<algo, paramVars, call, spaceVars, mean, std, loc, update_position, T0,
                   n_calls>>

\* space.clip_by_bound()
Clip ==
    /\ pc = "clip"
    /\ agents' = SpaceClip(agents)
    /\ pc' = "evaluate"
    /\ UNCHANGED <<algo, paramVars, call, spaceVars, best_agent, mean, std, history, t, idx,
                   loc, lastEval, update_position, T0, n_calls>>

\* self._evaluate(space, function, hook=pre_evaluate)
Evaluate ==
    /\ pc = "evaluate"
    /\ agents' = EvaluatedAgents(agents, function)
    /\ best_agent' = EvaluatedBest(agents, best_agent, function)
    /\ lastEval' = {agents[i].position : i \in DOMAIN agents}
    /\ pc' = "dump"
    /\ UNCHANGED <<algo, paramVars, call, spaceVars, mean, std, history, t, idx, loc,
                   update_position, T0, n_calls>>

\* history.dump(agents=space.agents, best_agent=space.best_agent); the
\* iteration ends and the loop goes on or run() returns.
Dump ==
    /\ pc = "dump"
    /\ history' = Append(history, DumpRecord(agents, best_agent, store_best_only))
    /\ t' = t + 1
    /\ idx' = 1
    /\ lastEval' = {}
    /\ pc' = LoopHead(t + 1)
    /\ UNCHANGED <<algo, paramVars, call, spaceVars, agents, best_agent, mean, std, loc,
                   update_position, T0, n_calls>>

\* ------------------------------------------------------------- specification
\* The optimizer as its constructor leaves it (the defaults), before run().
Init ==
    /\ algo \in {"SA", "CEM"}
    /\ T = IF algo = "SA" THEN Int_(100) ELSE Absent
    /\ beta = IF algo = "SA" THEN Float_(999, 1000) ELSE Absent
    /\ n_updates = IF algo = "CEM" THEN Int_(5) ELSE Absent
    /\ alpha = IF algo = "CEM" THEN Float_(7, 10) ELSE Absent
    /\ call = NoCall
    /\ pc = "build"
    /\ function = "sphere"
    /\ n_iterations = 0
    /\ store_best_only = FALSE
    /\ agents = << >>
    /\ best_agent = [position |-> [j \in Vars |-> [d \in Dims |-> 0]], fit |-> FLOAT_MAX]
    /\ mean = [j \in Vars |-> 0]
    /\ std = [j \in Vars |-> 0]
    /\ history = << >>
    /\ t = 0
    /\ idx = 1
    /\ loc = NoLoc
    /\ lastEval = {}
    /\ update_position = << >>
    /\ T0 = Absent
    /\ n_calls = 0

Next ==
    \/ SetT
    \/ SetBeta
    \/ SetNUpdates
    \/ SetAlpha
    \/ StartRun
    \/ CEMInitStats
    \/ InitialEvaluate
    \/ SAUpdateAgent
    \/ SADecay
    \/ CEMCreateSample
    \/ CEMRefit
    \/ Clip
    \/ Evaluate
    \/ Dump

Spec == Init /\ [][Next]_vars

\* ------------------------------------------------------------- claims
Running == pc \notin {"build"}
Fits == [k \in DOMAIN history |-> history[k].best_agent.fit]

\* C1: run() performs the initial evaluation and then exactly n_iterations
\* iterations, each update -> clip -> evaluate -> dump with no step skipped,
\* and returns a History of exactly n_iterations records; nothing but the
\* iteration count ends it.
C1_StepOrder ==
    /\ pc = "init_eval" => pc' = (IF n_iterations = 0 THEN "done" ELSE "update")
    /\ pc = "update" => pc' \in {"update", "clip"}
    /\ pc = "clip" => pc' = "evaluate"
    /\ pc = "evaluate" => pc' = "dump"
    /\ pc = "dump" =>
         /\ history' # history /\ Len(history') = Len(history) + 1
         /\ pc' = (IF Len(history') < n_iterations THEN "update" ELSE "done")
    /\ pc # "dump" /\ pc # "init_eval" => history' = history
    /\ pc' = "done" => Len(history') = n_iterations

C1_RunLifecycle == [][C1_StepOrder]_vars

\* C2: every position handed to the objective function (SA candidate, CEM
\* resampled agent, evaluation pass) lies within the bounds, and so does every
\* agent's position at the end of every iteration.
C2_EvaluatedWithinBounds ==
    /\ \A p \in lastEval : InBounds(p)
    /\ (pc \in {"update", "done"} /\ idx = 1 /\ Len(history) >= 1) =>
           \A i \in DOMAIN agents : InBounds(agents[i].position)

\* C2 witness: an SA candidate that moved away from its agent was evaluated
\* at a bound of variable 1.
C2_Witness ==
    /\ algo = "SA" /\ loc.out = "accept" /\ lastEval = {loc.a}
    /\ loc.a # loc.old /\ loc.a[1][1] = ub[1]

\* C3: the best fitness recorded in History never increases from one record
\* to the next, and best_agent changes only in an evaluation pass.
C3_BestStep ==
    /\ \A k \in DOMAIN history' : k > 1 => Fits'[k] <= Fits'[k - 1]
    /\ best_agent' # best_agent => pc \in {"init_eval", "evaluate"}

C3_BestNonIncreasing == [][C3_BestStep]_vars

\* C3 witness: an SA run has two records although every agent of the final
\* population is worse than the best agent.
C3_Witness ==
    /\ algo = "SA" /\ pc = "done" /\ Len(history) >= 2
    /\ \A i \in DOMAIN agents : agents[i].fit > best_agent.fit

\* C4: an SA candidate strictly better than its agent is accepted, whatever
\* the uniform draw and the temperature: the agent then holds the candidate's
\* position and fitness.
C4_BetterAlwaysAccepted ==
    (algo = "SA" /\ loc.out # "none" /\ loc.afit < loc.oldfit) =>
        /\ loc.out = "accept"
        /\ agents[loc.i].position = loc.a
        /\ agents[loc.i].fit = loc.afit

\* C4 witness: a strictly better candidate was accepted at temperature 0 with
\* a high uniform draw.
C4_Witness ==
    /\ algo = "SA" /\ loc.out = "accept" /\ loc.afit < loc.oldfit
    /\ ~loc.r1low /\ T.num = 0

\* T0 * b^k, the power formed first.
RECURSIVE PowRat(_, _)
PowRat(b, k) == IF k = 0 THEN Int_(1) ELSE Mul(PowRat(b, k - 1), b)

\* C5: after k completed calls of SA._update the temperature is T0 * beta^k;
\* a call multiplies T once, after the loop over the agents.
C5_GeometricDecay ==
    (algo = "SA" /\ Running) =>
        /\ T.num = Mul(T0, PowRat(beta, n_calls)).num
        /\ T.den = Mul(T0, PowRat(beta, n_calls)).den
        /\ pc = "update" => n_calls = t
        /\ pc \in {"clip", "evaluate", "dump"} => n_calls = t + 1

\* C5 witness: two updates have completed and the temperature has moved.
C5_Witness ==
    algo = "SA" /\ n_calls = 2 /\ T.num # 0 /\ T # T0 /\ pc = "done"

\* C6: with n_updates equal to the population size and alpha = 0 the refitted
\* mean of every variable is the average of all agents' positions for it.
C6_MeanIsPopulationAverage ==
    (algo = "CEM" /\ pc = "clip" /\ n_updates.num = PopSize /\ alpha.num = 0) =>
        \A j \in Vars :
            mean[j] = NpMean([i \in DOMAIN agents |-> agents[i].position[j]])

\* C6 witness: such a refit in the second iteration, over agents that differ.
C6_Witness ==
    /\ algo = "CEM" /\ pc = "clip" /\ n_updates.num = PopSize /\ alpha.num = 0
    /\ t = 1 /\ agents[1].position # agents[PopSize].position
    /\ mean[1] # history[1].best_agent.position[1][1]

\* What the claim calls a valid value.
ValidNUpdates(v) == v.kind \in {"int", "bool"} /\ v.den = 1 /\ v.num > 0
ValidNumber(v) == v.kind \in {"int", "float", "bool"} /\ v.num >= 0
Stored(name) ==
    IF name = "T" THEN T ELSE IF name = "beta" THEN beta
    ELSE IF name = "alpha" THEN alpha ELSE n_updates

\* C7: a setter handed an invalid value raises and leaves the stored value
\* as it was; a valid value is stored as given.
C7_SettersValidate ==
    call.name # "none" =>
        LET valid == IF call.name = "n_updates" THEN ValidNUpdates(call.value)
                     ELSE ValidNumber(call.value)
        IN  /\ ~valid => call.raised # "ok" /\ Stored(call.name) = call.prev
            /\ valid => call.raised = "ok" /\ Stored(call.name) = call.value

\* C7 witness: n_updates = 2.5 was refused after another value had been set.
C7_Witness ==
    /\ call.name = "n_updates" /\ call.value = Float_(5, 2)
    /\ call.raised = "TypeError" /\ n_updates = Int_(1)

\* C8 as stated: index i of space.agents always holds the agent that started
\* there.
C8_OrderStable ==
    Running => Len(agents) = PopSize /\ \A i \in DOMAIN agents : agents[i].id = i

\* C8 amended: the population keeps its size and its agents; SA keeps their
\* order; CEM leaves them sorted by ascending fitness after every update.
C8_SameAgentsSortedByCEM ==
    Running =>
        /\ Len(agents) = PopSize
        /\ {agents[i].id : i \in DOMAIN agents} = Agents
        /\ algo = "SA" => \A i \in DOMAIN agents : agents[i].id = i
        /\ (algo = "CEM" /\ pc = "clip") =>
               \A i, k \in DOMAIN agents : i < k => agents[i].fit <= agents[k].fit

\* C8 witness: after a CEM update another agent stands at index 1.
C8_Witness ==
    algo = "CEM" /\ pc = "clip" /\ agents[1].id # 1 /\ agents[1].fit < agents[PopSize].fit

\* C9 as stated: n_updates never exceeds the population size and the refit
\* uses exactly n_updates elites.
C9_ExactlyNUpdatesElites ==
    (algo = "CEM" /\ pc = "clip") =>
        n_updates.num <= PopSize /\ Len(update_position) = n_updates.num

C9_RefitStep ==
    (algo = "CEM" /\ pc # "stats" /\ (mean' # mean \/ std' # std)) =>
        /\ pc = "update" /\ idx = PopSize + 1
        /\ \A i \in DOMAIN agents :
               /\ InBounds(agents[i].position)
               /\ agents[i].fit = Function(function, agents[i].position)
        /\ Len(update_position') = Min(n_updates.num, PopSize)
        /\ \A i \in DOMAIN update_position' : update_position'[i] = agents'[i].position
        /\ \A i, k \in DOMAIN agents' :
               (i <= Len(update_position') /\ k > Len(update_position')) =>
                   agents'[i].fit <= agents'[k].fit
        /\ \A j \in Vars :
               std'[j] = UpdateStd(Column(update_position', j), mean'[j], std[j], alpha)

\* C9 amended: the refit uses the min(n_updates, population size) agents of
\* lowest fitness of the population just resampled, clipped and evaluated,
\* and computes each std around the mean just written.
C9_RefitFromElites == [][C9_RefitStep]_vars

\* C9 witness: a refit from one elite out of agents of different fitness
\* moved the mean of variable 1.
C9_Witness ==
    /\ algo = "CEM" /\ pc = "clip" /\ n_updates.num = 1 /\ Len(update_position) = 1
    /\ agents[1].fit < agents[PopSize].fit /\ std[1] > 0

\* C10: the std of every decision variable is >= 0 at the start of every
\* iteration of CEM.run.
C10_StdNonNegative ==
    (algo = "CEM" /\ pc = "update" /\ idx = 1) => \A j \in Vars : std[j] >= 0

====
